---- MODULE Spec2Model ----
(***************************************************************************)
(* Verification model of the interactive logic of the HeliCheck site:      *)
(*   - Gallery4 (src/components/blocks/gallery4.tsx): the carousel         *)
(*     indicator segmentation and the prev / next / indicator controls;    *)
(*   - Header (components/layout/header): the scroll-driven chrome flag    *)
(*     and the mobile drawer flag.                                         *)
(* JavaScript numbers are IEEE-754 binary64 values.  The two quotients the *)
(* gallery computes (items.length / indicatorCount, then i * step and      *)
(* slideIndex / segmentSize) are modelled with their binary64 rounding;    *)
(* see the section "binary64 arithmetic" below.                            *)
(***************************************************************************)
EXTENDS Integers, Sequences, FiniteSets, TLC

\* ------------------------------------------------------------------ bounds
MaxItems == 18        \* largest items.length explored
MaxIndicators == 19   \* largest indicatorCount prop explored
MaxScrollY == 12      \* largest window.scrollY explored
MaxTimers == 2        \* setTimeout calls explored in one run
MaxInstanceItems == 2 \* items of each of two Gallery4 rendered together
MaxLogos == 3         \* entries of partnerLogos explored (the source lists 10)
MaxMounts == 2        \* times Partners is mounted in one run
MaxNesting == 2       \* <Carousel> elements around a component calling useCarousel
MaxTestimonials == 10 \* largest testimonials.length explored
MaxApis == 2          \* embla api objects one Carousel receives in one run

\* --------------------------------------------------------------- constants
ScrollThreshold == 10 \* window.scrollY > 10
MantissaBits == 53    \* significand precision of a JavaScript number
ScrollDelay == 100    \* setTimeout(..., 100) of the mobile drawer
AutoplayPeriod == 10000 \* setInterval(handleNext, 10000)

VARIABLES
    \* Gallery4 props
    itemCount,            \* items.length
    indicatorCount,       \* <<>> when the prop is absent, <<k>> when given
    \* Gallery4 state
    internalCarouselApi,  \* FALSE: undefined, TRUE: the embla api object
    canScrollPrev,
    canScrollNext,
    currentSlide,
    \* the embla engine behind internalCarouselApi
    selectedSnap,         \* what api.selectedScrollSnap() returns
    \* Gallery4 render output
    highlighted,          \* indices of the dots rendered with "bg-primary"
    \* Header
    mounted,
    scrollY,              \* window.scrollY
    isScrolled,
    isOpen,
    scrollListeners,      \* "scroll" listeners of the Header on window
    location,             \* the route the browser shows
    timers,               \* pending setTimeout callbacks, oldest first
    nextTimerId,          \* the id the next setTimeout call returns
    firedTimers,          \* ids of the callbacks that ran, in order
    lastScroll,           \* last getElementById(id)?.scrollIntoView(): <<>>
                          \* or [id, found]; found = scrollIntoView was called
    uncaught,             \* TRUE once a handler threw
    \* a second Header and a second Gallery4 rendered in the same window
    otherHeader,          \* [mounted, isOpen]
    otherGallery,         \* [itemCount, internalCarouselApi, canScrollPrev,
                          \*  canScrollNext, currentSlide, selectedSnap]
    \* Partners
    partnersMounted,
    logos,                \* the useState list the carousel renders
    responses,            \* per logo: "none", "pending", "ok", "notok", "error"
    fetchCount,           \* per logo: HEAD requests sent so far
    mounts,               \* times Partners was mounted
    \* Carousel (ui/carousel.tsx) and a component calling useCarousel
    carouselOrientation,
    carouselApi,          \* FALSE: undefined, TRUE: the embla api object
    carouselCanScrollPrev,
    carouselCanScrollNext,
    carouselDepth,        \* <Carousel> ancestors of the calling component
    useCarouselResult,    \* <<>> before the first call, then what the call did
    apiListeners,         \* events of the current api that onSelect listens to
    staleListeners,       \* events of a replaced api that onSelect still listens to
    staleOnSelect,        \* TRUE once a replaced api has called onSelect
    onCalls,              \* per event: api.on(event, onSelect) calls so far
    offCalls,             \* per event: api.off(event, onSelect) calls so far
    \* a component calling useFormField (ui/form.tsx)
    inForm,               \* rendered below <Form> (FormProvider)
    fieldName,            \* <<>>: no <FormField> above, <<name>>: its name
    itemId,               \* <<>>: no <FormItem> above, <<id>>: its useId()
    useFormFieldResult,   \* <<>> before the first call, then what the call did
    \* AnimatedTestimonials
    testimonialCount,     \* testimonials.length
    autoplay,             \* the prop, false when omitted
    testimonialsMounted,
    isClient,
    active,
    interval              \* <<>>: no interval set, <<ms>>: handleNext every ms

galleryVars == <<itemCount, indicatorCount, internalCarouselApi, canScrollPrev,
                 canScrollNext, currentSlide, selectedSnap, highlighted>>
navState == <<isOpen, isScrolled>>
headerVars == <<mounted, scrollY, isScrolled, isOpen, scrollListeners, location,
                timers, nextTimerId, firedTimers, lastScroll, uncaught>>
instanceVars == <<otherHeader, otherGallery>>
partnerVars == <<partnersMounted, logos, responses, fetchCount, mounts>>
\* the components that are neither a Header nor a Gallery4
listenerVars == <<apiListeners, staleListeners, staleOnSelect, onCalls, offCalls>>
carouselVars == <<carouselOrientation, carouselApi, carouselCanScrollPrev,
                  carouselCanScrollNext, carouselDepth, useCarouselResult,
                  listenerVars>>
formVars == <<inForm, fieldName, itemId, useFormFieldResult>>
hookVars == <<carouselVars, formVars>>
testimonialVars == <<testimonialCount, autoplay, testimonialsMounted, isClient,
                     active, interval>>
widgetVars == <<partnerVars, hookVars, testimonialVars>>
vars == <<galleryVars, headerVars, instanceVars, widgetVars>>
nonGalleryVars == <<headerVars, instanceVars, widgetVars>>
nonHeaderVars == <<galleryVars, instanceVars, widgetVars>>
nonPartnerVars == <<galleryVars, headerVars, instanceVars, hookVars,
                    testimonialVars>>
nonHookVars == <<galleryVars, headerVars, instanceVars, partnerVars,
                 testimonialVars>>
nonTestimonialVars == <<galleryVars, headerVars, instanceVars, partnerVars,
                        hookVars>>

\* ------------------------------------------------------------------ helpers
Min(a, b) == IF a < b THEN a ELSE b
Max(a, b) == IF a > b THEN a ELSE b

RECURSIVE Pow2(_)
Pow2(e) == IF e <= 0 THEN 1 ELSE 2 * Pow2(e - 1)

\* A * 2^a <= B * 2^b, for exponents of any size: only their difference counts.
ScaledLeq(A, a, B, b) ==
    LET m == Min(a, b) IN A * Pow2(a - m) <= B * Pow2(b - m)

\* ------------------------------------------------------ binary64 arithmetic
(***************************************************************************)
(* For integers n > k >= 1 the JavaScript value step = n / k is the        *)
(* binary64 number nearest to n/k.  With q = floor(log2(n/k)) and          *)
(* t = MantissaBits - 1 - q its significand is m = round(n * 2^t / k), so  *)
(*        step = (n * 2^t + d) / (k * 2^t),   d = m * k - n * 2^t,         *)
(* where d is found from the remainder r = n * 2^t mod k of the long       *)
(* division: d = -r when the quotient is rounded down, k - r when it is    *)
(* rounded up (round to nearest, ties to even).                            *)
(***************************************************************************)
RECURSIVE BinaryExponent(_, _)
\* largest q >= 0 with k * 2^q <= n   (n >= k >= 1)
BinaryExponent(n, k) == IF 2 * k <= n THEN 1 + BinaryExponent(n, 2 * k) ELSE 0

RECURSIVE LongDivisionRemainder(_, _, _)
\* remainder of r * 2^j divided by k, one quotient bit at a time
LongDivisionRemainder(r, k, j) ==
    IF j = 0 THEN r ELSE LongDivisionRemainder((2 * r) % k, k, j - 1)

\* d of the comment above: k * 2^t * (step - n/k)
QuotientRoundingError(n, k) ==
    LET t == MantissaBits - 1 - BinaryExponent(n, k)
        rPrev == LongDivisionRemainder(n % k, k, t - 1)
        r == (2 * rPrev) % k
        lastBit == (2 * rPrev) \div k
        roundUp == (2 * r > k) \/ (2 * r = k /\ lastBit = 1)
    IN  IF roundUp THEN k - r ELSE 0 - r

\* p with 2^p < J <= 2^(p+1): the binary64 numbers just below the integer
\* J >= 1 are 2^(p - MantissaBits + 1) apart.
RECURSIVE ExponentBelow(_)
ExponentBelow(J) == IF J <= 1 THEN 0 - 1 ELSE 1 + ExponentBelow((J + 1) \div 2)

(***************************************************************************)
(* Math.floor(i * step).  The exact product is i*n/k + i*d/(k*2^t).  When  *)
(* i*n/k is not an integer it is at least 1/k away from one, far more than *)
(* the two rounding errors, and the floor is floor(i*n/k).  When i*n/k is  *)
(* an integer J and d < 0 the exact product lies just below J; the rounded *)
(* product is J when J - product <= half the spacing below J (J has an     *)
(* even significand, so a tie goes to J), and otherwise is below J.        *)
(***************************************************************************)
FloorOfProduct(i, n, k) ==
    LET J == (i * n) \div k
        d == QuotientRoundingError(n, k)
    IN  IF (i * n) % k # 0 \/ i = 0 \/ d >= 0
        THEN J
        ELSE IF ScaledLeq(i * (0 - d), MantissaBits - ExponentBelow(J),
                          k, MantissaBits - 1 - BinaryExponent(n, k))
             THEN J
             ELSE J - 1

(***************************************************************************)
(* Math.floor(s / step).  The exact quotient is s*k*2^t / (n*2^t + d).     *)
(* When s*k/n is an integer J and d > 0 the exact quotient lies just below *)
(* J, and the rounded quotient is J only when J - quotient <= half the     *)
(* spacing below J, that is J*d*2^(MantissaBits-p) <= n*2^t + d, where the *)
(* final + d (0 < d < 2^t) never decides the comparison of the multiples.  *)
(***************************************************************************)
FloorOfQuotient(s, n, k) ==
    LET J == (s * k) \div n
        d == QuotientRoundingError(n, k)
    IN  IF (s * k) % n # 0 \/ s = 0 \/ d <= 0
        THEN J
        ELSE IF ScaledLeq(J * d, MantissaBits - ExponentBelow(J),
                          n, MantissaBits - 1 - BinaryExponent(n, k))
             THEN J
             ELSE J - 1

\* ------------------------------------------------------------------ Gallery4
\* !indicatorCount || indicatorCount >= items.length
UsesIdentityMapping ==
    \/ indicatorCount = <<>>
    \/ indicatorCount[1] = 0
    \/ indicatorCount[1] >= itemCount

\* variant: the loop pushes the end of each segment, (i + 1) * step
getIndicatorMappingSegmentEnds ==
    IF UsesIdentityMapping
    THEN [i \in 0 .. (itemCount - 1) |-> i]
    ELSE [i \in 0 .. (indicatorCount[1] - 1) |->
            Min(FloorOfProduct(i + 1, itemCount, indicatorCount[1]),
                itemCount - 1)]

\* variant: the identity branch always renders at least one dot
getIndicatorMappingAtLeastOneDot ==
    IF UsesIdentityMapping
    THEN [i \in 0 .. (Max(itemCount, 1) - 1) |-> i]
    ELSE [i \in 0 .. (indicatorCount[1] - 1) |->
            Min(FloorOfProduct(i, itemCount, indicatorCount[1]), itemCount - 1)]

\* variant: the loop runs while i <= indicatorCount
getIndicatorMappingInclusiveLoop ==
    IF UsesIdentityMapping
    THEN [i \in 0 .. (itemCount - 1) |-> i]
    ELSE [i \in 0 .. indicatorCount[1] |->
            Min(FloorOfProduct(i, itemCount, indicatorCount[1]), itemCount - 1)]

\* variant: the step is inverted, indicatorCount / items.length
getIndicatorMappingInvertedStep ==
    IF UsesIdentityMapping
    THEN [i \in 0 .. (itemCount - 1) |-> i]
    ELSE [i \in 0 .. (indicatorCount[1] - 1) |->
            Min((i * indicatorCount[1]) \div itemCount, itemCount - 1)]

\* const getIndicatorMapping = () => ...; indexed 0 .. length-1 as the array
getIndicatorMapping ==
    IF UsesIdentityMapping
    THEN [i \in 0 .. (itemCount - 1) |-> i]
    ELSE [i \in 0 .. (indicatorCount[1] - 1) |->
            Min(FloorOfProduct(i, itemCount, indicatorCount[1]), itemCount - 1)]

indicatorMapping == getIndicatorMapping

\* variant: only `!indicatorCount` selects the identity
getActiveIndicatorNoUpperCheck(slideIndex) ==
    IF indicatorCount = <<>> \/ indicatorCount[1] = 0
    THEN slideIndex
    ELSE Min(FloorOfQuotient(slideIndex, itemCount, indicatorCount[1]),
             indicatorCount[1] - 1)

\* variant: dots are assigned round-robin, slideIndex % indicatorCount
getActiveIndicatorRoundRobin(slideIndex) ==
    IF UsesIdentityMapping
    THEN slideIndex
    ELSE Min(slideIndex % indicatorCount[1], indicatorCount[1] - 1)

\* variant: the slide index is divided by indicatorCount, not by the step
getActiveIndicatorDividesByCount(slideIndex) ==
    IF UsesIdentityMapping
    THEN slideIndex
    ELSE Min(slideIndex \div indicatorCount[1], indicatorCount[1] - 1)

\* const getActiveIndicator = (slideIndex) => ...
getActiveIndicator(slideIndex) ==
    IF UsesIdentityMapping
    THEN slideIndex
    ELSE Min(FloorOfQuotient(slideIndex, itemCount, indicatorCount[1]),
             indicatorCount[1] - 1)

\* The dots of the render: dot `index` is highlighted when
\* getActiveIndicator(currentSlide) === index.
HighlightedDots(slide) ==
    {index \in DOMAIN indicatorMapping : getActiveIndicator(slide) = index}

\* --- the embla engine (non-looping: opts sets no `loop`), one snap per slide
LastSnap == Max(itemCount - 1, 0)
EmblaCanScrollPrev(snap) == snap > 0
EmblaCanScrollNext(snap) == snap < LastSnap
EmblaScrollPrev(snap) == Max(snap - 1, 0)
EmblaScrollNext(snap) == Min(snap + 1, LastSnap)
EmblaScrollTo(snap, target) == Max(0, Min(target, LastSnap))

\* variant: the slide is stored one-based, selectedScrollSnap() + 1
updateSelectionOneBased(snap) ==
    /\ canScrollPrev' = EmblaCanScrollPrev(snap)
    /\ canScrollNext' = EmblaCanScrollNext(snap)
    /\ currentSlide' = snap + 1
    /\ highlighted' = HighlightedDots(snap + 1)

\* updateSelection, followed by the render it causes
updateSelection(snap) ==
    /\ canScrollPrev' = EmblaCanScrollPrev(snap)
    /\ canScrollNext' = EmblaCanScrollNext(snap)
    /\ currentSlide' = snap
    /\ highlighted' = HighlightedDots(snap)

\* Carousel hands its api to setCarouselApiHandler; the effect of lines 83-97
\* then runs updateSelection once and subscribes it to "select".
SetCarouselApi ==
    /\ ~internalCarouselApi
    /\ internalCarouselApi' = TRUE
    /\ updateSelection(selectedSnap)
    /\ UNCHANGED <<itemCount, indicatorCount, selectedSnap>>
    /\ UNCHANGED nonGalleryVars

\* variant: the embla api is one module-level object that every Gallery4
\* drives, so a "select" also reaches the other instance's updateSelection
SelectSharedEngine(to) ==
    /\ selectedSnap' = to
    /\ updateSelection(to)
    /\ otherGallery' =
          IF otherGallery.internalCarouselApi
          THEN [otherGallery EXCEPT
                  !.selectedSnap = to,
                  !.currentSlide = to,
                  !.canScrollPrev = to > 0,
                  !.canScrollNext = to < Max(otherGallery.itemCount - 1, 0)]
          ELSE otherGallery
    /\ UNCHANGED <<itemCount, indicatorCount, internalCarouselApi>>
    /\ UNCHANGED <<headerVars, otherHeader, widgetVars>>

\* the engine moved to snap `to`; a "select" event reaches updateSelection
Select(to) ==
    /\ selectedSnap' = to
    /\ updateSelection(to)
    /\ UNCHANGED <<itemCount, indicatorCount, internalCarouselApi>>
    /\ UNCHANGED nonGalleryVars

\* variant: the previous button calls scrollNext()
ClickPrevScrollsNext ==
    /\ canScrollPrev
    /\ IF internalCarouselApi
       THEN Select(EmblaScrollNext(selectedSnap))
       ELSE UNCHANGED vars

\* onClick={() => internalCarouselApi?.scrollPrev()}, disabled={!canScrollPrev}
ClickPrev ==
    /\ canScrollPrev
    /\ IF internalCarouselApi
       THEN Select(EmblaScrollPrev(selectedSnap))
       ELSE UNCHANGED vars

\* onClick={() => internalCarouselApi?.scrollNext()}, disabled={!canScrollNext}
ClickNext ==
    /\ canScrollNext
    /\ IF internalCarouselApi
       THEN Select(EmblaScrollNext(selectedSnap))
       ELSE UNCHANGED vars

\* onClick={() => internalCarouselApi?.scrollTo(targetSlide)} of dot `index`
ClickIndicator(index) ==
    /\ index \in DOMAIN indicatorMapping
    /\ IF internalCarouselApi
       THEN Select(EmblaScrollTo(selectedSnap, indicatorMapping[index]))
       ELSE UNCHANGED vars

\* -------------------------------------------------------------------- Header
\* variant: the comparison is window.scrollY >= 10
handleScrollInclusive == isScrolled' = (scrollY' >= ScrollThreshold)

\* const handleScroll = () => { setIsScrolled(window.scrollY > 10) }
handleScroll == isScrolled' = (scrollY' > ScrollThreshold)

\* the drawer, links and timers of the Header that scrolling leaves alone
drawerVars == <<isOpen, location, timers, nextTimerId, firedTimers,
                lastScroll, uncaught>>

\* Header(): useState(false) twice, then the effect adds the scroll listener
MountHeader ==
    /\ ~mounted
    /\ mounted' = TRUE
    /\ isScrolled' = FALSE
    /\ isOpen' = FALSE
    /\ scrollListeners' = scrollListeners + 1
    /\ UNCHANGED <<scrollY, location, timers, nextTimerId, firedTimers,
                   lastScroll, uncaught>>
    /\ UNCHANGED nonHeaderVars

\* variant: the effect returns no cleanup, the listener stays on window
UnmountHeaderKeepsListener ==
    /\ mounted
    /\ mounted' = FALSE
    /\ isScrolled' = FALSE
    /\ isOpen' = FALSE
    /\ UNCHANGED <<scrollY, scrollListeners, location, timers, nextTimerId,
                   firedTimers, lastScroll, uncaught>>
    /\ UNCHANGED nonHeaderVars

\* variant: the unmount also clears the pending timeouts
UnmountHeaderClearsTimers ==
    /\ mounted
    /\ mounted' = FALSE
    /\ isScrolled' = FALSE
    /\ isOpen' = FALSE
    /\ scrollListeners' = 0
    /\ timers' = <<>>
    /\ UNCHANGED <<scrollY, location, nextTimerId, firedTimers, lastScroll,
                   uncaught>>
    /\ UNCHANGED nonHeaderVars

\* the effect's cleanup removes the listener; the state is discarded; the
\* timeouts of lines 263 and 279 are not cleared
UnmountHeader ==
    /\ mounted
    /\ mounted' = FALSE
    /\ isScrolled' = FALSE
    /\ isOpen' = FALSE
    /\ scrollListeners' = 0
    /\ UNCHANGED <<scrollY, location, timers, nextTimerId, firedTimers,
                   lastScroll, uncaught>>
    /\ UNCHANGED nonHeaderVars

\* variant: the scroll handler also closes the drawer
WindowScrollClosesDrawer(y) ==
    /\ y # scrollY
    /\ scrollY' = y
    /\ IF scrollListeners > 0
       THEN handleScroll /\ isOpen' = FALSE
       ELSE UNCHANGED <<isScrolled, isOpen>>
    /\ UNCHANGED <<mounted, scrollListeners, location, timers, nextTimerId,
                   firedTimers, lastScroll, uncaught>>
    /\ UNCHANGED nonHeaderVars

\* the window scrolls to offset y; the Header's listener, if any, runs
WindowScroll(y) ==
    /\ y # scrollY
    /\ scrollY' = y
    /\ IF scrollListeners > 0 THEN handleScroll ELSE UNCHANGED isScrolled
    /\ UNCHANGED <<mounted, scrollListeners>>
    /\ UNCHANGED drawerVars
    /\ UNCHANGED nonHeaderVars

\* <Drawer open={isOpen} onOpenChange={setIsOpen}>
setIsOpen(open) ==
    /\ mounted
    /\ isOpen' = open
    /\ UNCHANGED <<mounted, scrollY, isScrolled, scrollListeners, location,
                   timers, nextTimerId, firedTimers, lastScroll, uncaught>>
    /\ UNCHANGED nonHeaderVars

\* const mobileLinks = [...]
mobileLinks ==
    << [href |-> "#services", isSection |-> TRUE],
       [href |-> "#case-studies", isSection |-> TRUE],
       [href |-> "#team", isSection |-> TRUE],
       [href |-> "/hsec", isSection |-> FALSE],
       [href |-> "/contact", isSection |-> FALSE] >>

\* the desktop menu: three scrollToSection links and two plain routes
desktopSections == {"services", "case-studies", "team"}
desktopRoutes == {"/hsec", "/contact"}

\* link.href.replace('#', ''): the first '#' is removed, if there is one
HrefWithoutHash(href) ==
    CASE href = "#services" -> "services"
      [] href = "#case-studies" -> "case-studies"
      [] href = "#team" -> "team"
      [] OTHER -> href

\* variant: document.getElementById(id).scrollIntoView(...) without `?.`
ScrollIntoViewUnchecked(id) ==
    \E found \in BOOLEAN :
        /\ lastScroll' = [id |-> id, found |-> found]
        /\ uncaught' = (uncaught \/ ~found)

\* document.getElementById(id)?.scrollIntoView({ behavior: "smooth" }): the
\* element is there or not; a smooth scroll only starts, its scroll events
\* are later WindowScroll steps
ScrollIntoView(id) ==
    \E found \in BOOLEAN :
        /\ lastScroll' = [id |-> id, found |-> found]
        /\ uncaught' = uncaught

\* setTimeout(() => { ...scrollIntoView... }, 100)
SetTimeout(target) ==
    /\ timers' = Append(timers, [id |-> nextTimerId, target |-> target,
                                  delay |-> ScrollDelay])
    /\ nextTimerId' = nextTimerId + 1

\* variant: every mobile link takes the close-then-scroll path
ClickMobileLinkNoSectionTest(link) ==
    /\ mounted /\ isOpen
    /\ nextTimerId <= MaxTimers
    /\ isOpen' = FALSE
    /\ SetTimeout(HrefWithoutHash(link.href))
    /\ UNCHANGED <<mounted, scrollY, isScrolled, scrollListeners, location,
                   firedTimers, lastScroll, uncaught>>
    /\ UNCHANGED nonHeaderVars

\* variant: the section link scrolls at once instead of setting a timeout
ClickMobileLinkScrollsAtOnce(link) ==
    /\ mounted /\ isOpen
    /\ IF link.isSection
       THEN /\ isOpen' = FALSE
            /\ ScrollIntoView(HrefWithoutHash(link.href))
            /\ UNCHANGED <<location, timers, nextTimerId>>
       ELSE /\ location' = link.href
            /\ isOpen' \in BOOLEAN
            /\ UNCHANGED <<timers, nextTimerId, lastScroll, uncaught>>
    /\ UNCHANGED <<mounted, scrollY, isScrolled, scrollListeners, firedTimers>>
    /\ UNCHANGED nonHeaderVars

\* onClick of a mobile drawer link (the links exist while the drawer is open).
\* A section link prevents the default, closes the drawer and sets the
\* timeout.  Any other link does nothing itself: the <Link> navigates, and
\* whether the enclosing DrawerClose still closes the drawer is decided by
\* the drawer library, so both outcomes are kept.
ClickMobileLink(link) ==
    /\ mounted /\ isOpen
    /\ link.isSection => nextTimerId <= MaxTimers
    /\ IF link.isSection
       THEN /\ isOpen' = FALSE
            /\ SetTimeout(HrefWithoutHash(link.href))
            /\ UNCHANGED <<location, lastScroll, uncaught>>
       ELSE /\ location' = link.href
            /\ isOpen' \in BOOLEAN
            /\ UNCHANGED <<timers, nextTimerId, lastScroll, uncaught>>
    /\ UNCHANGED <<mounted, scrollY, isScrolled, scrollListeners, firedTimers>>
    /\ UNCHANGED nonHeaderVars

\* onClick of the drawer's "Book a Survey" button inside DrawerClose: the
\* timeout is set and the DrawerClose closes the drawer
ClickMobileBookSurvey ==
    /\ mounted /\ isOpen
    /\ nextTimerId <= MaxTimers
    /\ isOpen' = FALSE
    /\ SetTimeout("contact")
    /\ UNCHANGED <<mounted, scrollY, isScrolled, scrollListeners, location,
                   firedTimers, lastScroll, uncaught>>
    /\ UNCHANGED nonHeaderVars

\* the oldest timeout expires and its callback runs (mounted or not)
TimerFires ==
    /\ timers # <<>>
    /\ ScrollIntoView(Head(timers).target)
    /\ timers' = Tail(timers)
    /\ firedTimers' = Append(firedTimers, Head(timers).id)
    /\ UNCHANGED <<mounted, scrollY, isScrolled, isOpen, scrollListeners,
                   location, nextTimerId>>
    /\ UNCHANGED nonHeaderVars

\* scrollToSection(e, sectionId) of a desktop link
scrollToSection(sectionId) ==
    /\ mounted
    /\ ScrollIntoView(sectionId)
    /\ UNCHANGED <<mounted, scrollY, isScrolled, isOpen, scrollListeners,
                   location, timers, nextTimerId, firedTimers>>
    /\ UNCHANGED nonHeaderVars

\* a desktop <Link href="/hsec"> or "/contact": no onClick, it navigates
ClickDesktopRoute(href) ==
    /\ mounted
    /\ location' = href
    /\ UNCHANGED <<mounted, scrollY, isScrolled, isOpen, scrollListeners,
                   timers, nextTimerId, firedTimers, lastScroll, uncaught>>
    /\ UNCHANGED nonHeaderVars

\* onClick of the desktop "Book a Survey" button
ClickBookSurvey ==
    /\ mounted
    /\ ScrollIntoView("contact")
    /\ UNCHANGED <<mounted, scrollY, isScrolled, isOpen, scrollListeners,
                   location, timers, nextTimerId, firedTimers>>
    /\ UNCHANGED nonHeaderVars

\* ------------------------------------------- a second instance of each
\* Every <Header /> has its own useState pair; window, its timer queue and
\* the route are the ones of the page.
MountOtherHeader ==
    /\ ~otherHeader.mounted
    /\ otherHeader' = [mounted |-> TRUE, isOpen |-> FALSE]
    /\ UNCHANGED <<galleryVars, headerVars, otherGallery, widgetVars>>

UnmountOtherHeader ==
    /\ otherHeader.mounted
    /\ otherHeader' = [mounted |-> FALSE, isOpen |-> FALSE]
    /\ UNCHANGED <<galleryVars, headerVars, otherGallery, widgetVars>>

\* <Drawer open={isOpen} onOpenChange={setIsOpen}> of the second Header
setOtherIsOpen(open) ==
    /\ otherHeader.mounted
    /\ otherHeader' = [otherHeader EXCEPT !.isOpen = open]
    /\ UNCHANGED <<galleryVars, headerVars, otherGallery, widgetVars>>

\* the mobile Link onClick of the second Header
ClickOtherMobileLink(link) ==
    /\ otherHeader.mounted /\ otherHeader.isOpen
    /\ link.isSection => nextTimerId <= MaxTimers
    /\ IF link.isSection
       THEN /\ otherHeader' = [otherHeader EXCEPT !.isOpen = FALSE]
            /\ SetTimeout(HrefWithoutHash(link.href))
            /\ UNCHANGED location
       ELSE /\ \E open \in BOOLEAN :
                  otherHeader' = [otherHeader EXCEPT !.isOpen = open]
            /\ location' = link.href
            /\ UNCHANGED <<timers, nextTimerId>>
    /\ UNCHANGED <<mounted, scrollY, isScrolled, isOpen, scrollListeners,
                   firedTimers, lastScroll, uncaught>>
    /\ UNCHANGED <<galleryVars, otherGallery, widgetVars>>

\* the second Gallery4: its own useState values and its own embla engine
OtherLastSnap == Max(otherGallery.itemCount - 1, 0)

OtherSelect(to) ==
    /\ otherGallery' = [otherGallery EXCEPT
                          !.selectedSnap = to,
                          !.canScrollPrev = to > 0,
                          !.canScrollNext = to < OtherLastSnap,
                          !.currentSlide = to]
    /\ UNCHANGED <<galleryVars, headerVars, otherHeader, widgetVars>>

SetOtherCarouselApi ==
    /\ ~otherGallery.internalCarouselApi
    /\ otherGallery' = [otherGallery EXCEPT
                          !.internalCarouselApi = TRUE,
                          !.canScrollPrev = otherGallery.selectedSnap > 0,
                          !.canScrollNext = otherGallery.selectedSnap < OtherLastSnap,
                          !.currentSlide = otherGallery.selectedSnap]
    /\ UNCHANGED <<galleryVars, headerVars, otherHeader, widgetVars>>

ClickOtherPrev ==
    /\ otherGallery.canScrollPrev
    /\ IF otherGallery.internalCarouselApi
       THEN OtherSelect(Max(otherGallery.selectedSnap - 1, 0))
       ELSE UNCHANGED vars

ClickOtherNext ==
    /\ otherGallery.canScrollNext
    /\ IF otherGallery.internalCarouselApi
       THEN OtherSelect(Min(otherGallery.selectedSnap + 1, OtherLastSnap))
       ELSE UNCHANGED vars

\* a dot of the second Gallery4 (no indicatorCount: dot i jumps to slide i)
ClickOtherIndicator(index) ==
    /\ index \in 0 .. (otherGallery.itemCount - 1)
    /\ IF otherGallery.internalCarouselApi
       THEN OtherSelect(Max(0, Min(index, OtherLastSnap)))
       ELSE UNCHANGED vars

\* ------------------------------------------------------------------ Partners
\* const partnerLogos = [...]: every entry has an id, a local image and a
\* non-empty fallbackImage; <<>> stands for the empty string
partnerLogos ==
    [n \in 1 .. MaxLogos |->
        [id |-> n, image |-> <<"local", n>>, fallbackImage |-> <<"fallback", n>>]]

Outcomes == {"ok", "notok", "error"}

\* variant: only a thrown fetch selects the fallback, res.ok is not read
checkImageCatchOnly(logo, outcome) ==
    IF outcome = "error"
    THEN [logo EXCEPT !.image = IF logo.fallbackImage # <<>>
                                 THEN logo.fallbackImage ELSE logo.image]
    ELSE logo

\* the async function mapped over partnerLogos, after its fetch settled:
\* res.ok returns the logo, a non-OK response and a thrown error both return
\* { ...logo, image: logo.fallbackImage || logo.image }
checkImage(logo, outcome) ==
    IF outcome = "ok"
    THEN logo
    ELSE [logo EXCEPT !.image = IF logo.fallbackImage # <<>>
                                 THEN logo.fallbackImage ELSE logo.image]

AllSettled(resp) == \A n \in DOMAIN resp : resp[n] \in Outcomes

\* Partners(): useState(partnerLogos), then the effect calls checkImages,
\* whose map sends one HEAD request per logo before anything is awaited
MountPartners ==
    /\ ~partnersMounted
    /\ mounts < MaxMounts
    /\ partnersMounted' = TRUE
    /\ mounts' = mounts + 1
    /\ logos' = partnerLogos
    /\ responses' = [n \in DOMAIN partnerLogos |-> "pending"]
    /\ fetchCount' = [n \in DOMAIN partnerLogos |-> fetchCount[n] + 1]
    /\ UNCHANGED nonPartnerVars

\* the fetch of logo n settles; when it is the last one, Promise.all
\* resolves and setLogos(updatedLogos) runs
FetchSettles(n, outcome) ==
    /\ partnersMounted
    /\ responses[n] = "pending"
    /\ responses' = [responses EXCEPT ![n] = outcome]
    /\ logos' = IF AllSettled(responses')
                THEN [m \in DOMAIN partnerLogos |->
                        checkImage(partnerLogos[m], responses'[m])]
                ELSE logos
    /\ UNCHANGED <<partnersMounted, fetchCount, mounts>>
    /\ UNCHANGED nonPartnerVars

\* the state is discarded; a setLogos of requests still in flight is ignored
UnmountPartners ==
    /\ partnersMounted
    /\ partnersMounted' = FALSE
    /\ logos' = <<>>
    /\ responses' = [n \in DOMAIN partnerLogos |-> "none"]
    /\ UNCHANGED <<fetchCount, mounts>>
    /\ UNCHANGED nonPartnerVars

\* ------------------------------------------------- useCarousel, useFormField
\* A JavaScript value as far as the hooks look at it: null, or an object.
Null == [isNull |-> TRUE, fields |-> <<>>]
Object(fields) == [isNull |-> FALSE, fields |-> fields]
\* !value
Falsy(value) == value.isNull

Threw(message) == [threw |-> TRUE, message |-> message, value |-> Null]
Returned(value) == [threw |-> FALSE, message |-> "", value |-> value]

\* <CarouselContext.Provider value={{ ... }}> of the nearest Carousel
CarouselProviderValue(api, prev, next) ==
    Object([api |-> api,
            orientation |-> carouselOrientation,
            canScrollPrev |-> prev,
            canScrollNext |-> next])

\* React.useContext(CarouselContext): the nearest provider's value, or the
\* default of React.createContext(null)
CarouselContextAt(depth, api, prev, next) ==
    IF depth = 0 THEN Null ELSE CarouselProviderValue(api, prev, next)

\* variant: the context is returned without the null test
useCarouselNoGuard(context) == Returned(context)

\* function useCarousel()
useCarousel(context) ==
    IF Falsy(context)
    THEN Threw("useCarousel must be used within a <Carousel />")
    ELSE Returned(context)

\* a component calling useCarousel renders below `depth` Carousels
RenderCarouselConsumer(depth) ==
    /\ carouselDepth' = depth
    /\ useCarouselResult' =
          useCarousel(CarouselContextAt(depth, carouselApi,
                                        carouselCanScrollPrev, carouselCanScrollNext))
    /\ UNCHANGED <<carouselOrientation, carouselApi, carouselCanScrollPrev,
                   carouselCanScrollNext>>
    /\ UNCHANGED listenerVars
    /\ UNCHANGED formVars
    /\ UNCHANGED nonHookVars

\* the provider's value changed: a consumer below it renders again
CarouselConsumerRendersAgain(api, prev, next) ==
    useCarouselResult' =
        IF useCarouselResult # <<>> /\ carouselDepth > 0
        THEN useCarousel(CarouselContextAt(carouselDepth, api, prev, next))
        ELSE useCarouselResult

\* the events the listener effect deals with
CarouselEvents == {"reInit", "select"}
\* api.on(event, onSelect) and api.off(event, onSelect) of the embla api
EmblaOn(listeners, event) == listeners \cup {event}
EmblaOff(listeners, event) == listeners \ {event}
CountCall(calls, event) == [calls EXCEPT ![event] = calls[event] + 1]

\* useEmblaCarousel delivers the api; the listener effect calls onSelect(api),
\* which stores api.canScrollPrev() and api.canScrollNext(), then
\* api.on("reInit", onSelect) and api.on("select", onSelect)
CarouselApiReady(prev, next) ==
    /\ ~carouselApi
    /\ onCalls["select"] < MaxApis
    /\ carouselApi' = TRUE
    /\ carouselCanScrollPrev' = prev
    /\ carouselCanScrollNext' = next
    /\ apiListeners' = EmblaOn(EmblaOn(apiListeners, "reInit"), "select")
    /\ onCalls' = CountCall(CountCall(onCalls, "reInit"), "select")
    /\ CarouselConsumerRendersAgain(TRUE, prev, next)
    /\ UNCHANGED <<carouselOrientation, carouselDepth, staleListeners,
                   staleOnSelect, offCalls>>
    /\ UNCHANGED formVars
    /\ UNCHANGED nonHookVars

\* a "select" or "reInit" event of the api runs onSelect
CarouselOnSelect(prev, next) ==
    /\ carouselApi
    /\ apiListeners # {}
    /\ carouselCanScrollPrev' = prev
    /\ carouselCanScrollNext' = next
    /\ CarouselConsumerRendersAgain(carouselApi, prev, next)
    /\ UNCHANGED <<carouselOrientation, carouselApi, carouselDepth>>
    /\ UNCHANGED listenerVars
    /\ UNCHANGED formVars
    /\ UNCHANGED nonHookVars

\* the api of the Carousel goes away (the api changes or the Carousel
\* unmounts): the effect's cleanup runs api?.off("select", onSelect).
\* `cleared` tells whether the library, destroying the old api, drops the
\* listeners that are still on it.
CleanupListenerEffect(cleared) ==
    /\ carouselApi
    /\ carouselApi' = FALSE
    /\ apiListeners' = {}
    /\ offCalls' = CountCall(offCalls, "select")
    /\ staleListeners' =
          IF cleared
          THEN staleListeners
          ELSE staleListeners \cup EmblaOff(apiListeners, "select")
    /\ CarouselConsumerRendersAgain(FALSE, carouselCanScrollPrev,
                                    carouselCanScrollNext)
    /\ UNCHANGED <<carouselOrientation, carouselCanScrollPrev,
                   carouselCanScrollNext, carouselDepth, staleOnSelect, onCalls>>
    /\ UNCHANGED formVars
    /\ UNCHANGED nonHookVars

\* a replaced api emits an event onSelect is still subscribed to: onSelect
\* runs with that api and stores its canScrollPrev() and canScrollNext()
StaleEvent(event, prev, next) ==
    /\ event \in staleListeners
    /\ staleOnSelect' = TRUE
    /\ carouselCanScrollPrev' = prev
    /\ carouselCanScrollNext' = next
    /\ CarouselConsumerRendersAgain(carouselApi, prev, next)
    /\ UNCHANGED <<carouselOrientation, carouselApi, carouselDepth,
                   apiListeners, staleListeners, onCalls, offCalls>>
    /\ UNCHANGED formVars
    /\ UNCHANGED nonHookVars

\* React.createContext({} as FormFieldContextValue): an object with no name
FormFieldContextAt(name) == Object([name |-> name])
\* React.createContext({} as FormItemContextValue): an object with no id
FormItemContextAt(id) == Object([id |-> id])

FieldNames == {<<>>, <<"email">>, <<"message">>}
ItemIds == {<<>>, <<":r1:">>}

\* lines 134-136 call react-hook-form: useFormContext(), useFormState() and
\* getFieldState(). Below <Form> and <FormField> they complete; elsewhere
\* the library decides whether they complete or throw its own TypeError.
LibraryOutcomes(form, name) ==
    IF form /\ name # <<>> THEN {"completes"} ELSE {"completes", "TypeError"}

\* const useFormField = () => { ... }
useFormField(fieldContext, itemContext, library) ==
    IF library = "TypeError"
    THEN Threw("TypeError")
    ELSE IF Falsy(fieldContext)
         THEN Threw("useFormField should be used within <FormField>")
         ELSE Returned(Object([id |-> itemContext.fields.id,
                               name |-> fieldContext.fields.name]))

\* a component calling useFormField renders at some place of the tree
RenderFormConsumer(form, name, id) ==
    /\ inForm' = form
    /\ fieldName' = name
    /\ itemId' = id
    /\ \E library \in LibraryOutcomes(form, name) :
          useFormFieldResult' =
              useFormField(FormFieldContextAt(name), FormItemContextAt(id), library)
    /\ UNCHANGED carouselVars
    /\ UNCHANGED nonHookVars

\* ------------------------------------------------------ AnimatedTestimonials
\* the % of JavaScript: the remainder takes the sign of the dividend
JsRemainder(a, b) == IF a >= 0 THEN a % b ELSE 0 - ((0 - a) % b)
\* setActive((prev) => (prev + 1) % testimonials.length)
handleNext(prev) == JsRemainder(prev + 1, testimonialCount)
\* variant: the length is not added before the remainder is taken
handlePrevWithoutLength(prev) == JsRemainder(prev - 1, testimonialCount)
\* setActive((prev) => (prev - 1 + testimonials.length) % testimonials.length)
handlePrev(prev) == JsRemainder(prev - 1 + testimonialCount, testimonialCount)

\* the first render and its effects: useState(0), useState(false); the
\* autoplay effect sees isClient false and sets no interval
MountTestimonials ==
    /\ ~testimonialsMounted
    /\ testimonialsMounted' = TRUE
    /\ active' = 0
    /\ isClient' = FALSE
    /\ interval' = <<>>
    /\ UNCHANGED <<testimonialCount, autoplay>>
    /\ UNCHANGED nonTestimonialVars

\* variant: the autoplay effect tests isClient only
ClientRenderIgnoresAutoplay ==
    /\ testimonialsMounted /\ ~isClient
    /\ isClient' = TRUE
    /\ interval' = <<AutoplayPeriod>>
    /\ UNCHANGED <<testimonialCount, autoplay, testimonialsMounted, active>>
    /\ UNCHANGED nonTestimonialVars

\* setIsClient(true) of the mount effect renders again; the autoplay effect
\* runs with its new dependency: if (autoplay && isClient) setInterval(...)
ClientRender ==
    /\ testimonialsMounted /\ ~isClient
    /\ isClient' = TRUE
    /\ interval' = IF autoplay THEN <<AutoplayPeriod>> ELSE <<>>
    /\ UNCHANGED <<testimonialCount, autoplay, testimonialsMounted, active>>
    /\ UNCHANGED nonTestimonialVars

\* the interval's period has passed: handleNext runs
IntervalTick ==
    /\ interval # <<>>
    /\ active' = handleNext(active)
    /\ UNCHANGED <<testimonialCount, autoplay, testimonialsMounted, isClient,
                   interval>>
    /\ UNCHANGED nonTestimonialVars

\* the button with onClick={handleNext}
ClickTestimonialNext ==
    /\ testimonialsMounted
    /\ active' = handleNext(active)
    /\ UNCHANGED <<testimonialCount, autoplay, testimonialsMounted, isClient,
                   interval>>
    /\ UNCHANGED nonTestimonialVars

\* the button with onClick={handlePrev}
ClickTestimonialPrev ==
    /\ testimonialsMounted
    /\ active' = handlePrev(active)
    /\ UNCHANGED <<testimonialCount, autoplay, testimonialsMounted, isClient,
                   interval>>
    /\ UNCHANGED nonTestimonialVars

\* the effect cleanup: clearInterval(interval); the state is discarded
UnmountTestimonials ==
    /\ testimonialsMounted
    /\ testimonialsMounted' = FALSE
    /\ active' = 0
    /\ isClient' = FALSE
    /\ interval' = <<>>
    /\ UNCHANGED <<testimonialCount, autoplay>>
    /\ UNCHANGED nonTestimonialVars

\* ------------------------------------------------------------ specifications
IndicatorCounts == {<<>>} \cup {<<k>> : k \in (0 - 1) .. MaxIndicators}

GalleryIdle ==
    /\ internalCarouselApi = FALSE
    /\ canScrollPrev = FALSE
    /\ canScrollNext = FALSE
    /\ currentSlide = 0
    /\ selectedSnap = 0
    /\ highlighted = HighlightedDots(0)

HeaderIdle ==
    /\ mounted = FALSE
    /\ scrollY = 0
    /\ isScrolled = FALSE
    /\ isOpen = FALSE
    /\ scrollListeners = 0
    /\ location = "/"
    /\ timers = <<>>
    /\ nextTimerId = 1
    /\ firedTimers = <<>>
    /\ lastScroll = <<>>
    /\ uncaught = FALSE

PartnersIdle ==
    /\ partnersMounted = FALSE
    /\ logos = <<>>
    /\ responses = [n \in DOMAIN partnerLogos |-> "none"]
    /\ fetchCount = [n \in DOMAIN partnerLogos |-> 0]
    /\ mounts = 0

ListenersIdle ==
    /\ apiListeners = {}
    /\ staleListeners = {}
    /\ staleOnSelect = FALSE
    /\ onCalls = [event \in CarouselEvents |-> 0]
    /\ offCalls = [event \in CarouselEvents |-> 0]

HooksIdle ==
    /\ carouselOrientation = "horizontal"
    /\ carouselApi = FALSE
    /\ carouselCanScrollPrev = FALSE
    /\ carouselCanScrollNext = FALSE
    /\ carouselDepth = 0
    /\ useCarouselResult = <<>>
    /\ ListenersIdle
    /\ inForm = FALSE
    /\ fieldName = <<>>
    /\ itemId = <<>>
    /\ useFormFieldResult = <<>>

TestimonialsIdle ==
    /\ testimonialsMounted = FALSE
    /\ isClient = FALSE
    /\ active = 0
    /\ interval = <<>>

\* nothing but the component under study is rendered
WidgetsIdle ==
    /\ PartnersIdle
    /\ HooksIdle
    /\ TestimonialsIdle
    /\ testimonialCount = 1
    /\ autoplay = FALSE

InstancesIdle ==
    /\ otherHeader = [mounted |-> FALSE, isOpen |-> FALSE]
    /\ otherGallery = [itemCount |-> 0, internalCarouselApi |-> FALSE,
                       canScrollPrev |-> FALSE, canScrollNext |-> FALSE,
                       currentSlide |-> 0, selectedSnap |-> 0]

Init ==
    /\ itemCount \in 0 .. MaxItems
    /\ indicatorCount \in IndicatorCounts
    /\ GalleryIdle
    /\ HeaderIdle
    /\ InstancesIdle
    /\ WidgetsIdle

Next ==
    \/ SetCarouselApi
    \/ ClickPrev
    \/ ClickNext
    \/ \E index \in 0 .. MaxItems : ClickIndicator(index)

\* Gallery4 with every combination of props
Spec == Init /\ [][Next]_vars

InitHeader ==
    /\ itemCount = 0
    /\ indicatorCount = <<>>
    /\ GalleryIdle
    /\ HeaderIdle
    /\ InstancesIdle
    /\ WidgetsIdle

NextHeader ==
    \/ MountHeader
    \/ UnmountHeader
    \/ \E y \in 0 .. MaxScrollY : WindowScroll(y)
    \/ \E open \in BOOLEAN : setIsOpen(open)
    \/ \E n \in DOMAIN mobileLinks : ClickMobileLink(mobileLinks[n])
    \/ ClickMobileBookSurvey
    \/ TimerFires
    \/ \E sectionId \in desktopSections : scrollToSection(sectionId)
    \/ \E href \in desktopRoutes : ClickDesktopRoute(href)
    \/ ClickBookSurvey

\* the Header of a page
SpecHeader == InitHeader /\ [][NextHeader]_vars

\* the mobile drawer of the Header: the page is not scrolled and the desktop
\* menu is not used
NextDrawer ==
    \/ MountHeader
    \/ UnmountHeader
    \/ \E open \in BOOLEAN : setIsOpen(open)
    \/ \E n \in DOMAIN mobileLinks : ClickMobileLink(mobileLinks[n])
    \/ ClickMobileBookSurvey
    \/ TimerFires

\* the browser's event loop runs every expired timeout
SpecDrawerFair == InitHeader /\ [][NextDrawer]_vars /\ WF_vars(TimerFires)

InitInstances ==
    /\ itemCount = MaxInstanceItems
    /\ indicatorCount = <<>>
    /\ GalleryIdle
    /\ HeaderIdle
    /\ WidgetsIdle
    /\ otherHeader = [mounted |-> FALSE, isOpen |-> FALSE]
    /\ otherGallery = [itemCount |-> MaxInstanceItems,
                       internalCarouselApi |-> FALSE,
                       canScrollPrev |-> FALSE, canScrollNext |-> FALSE,
                       currentSlide |-> 0, selectedSnap |-> 0]

NextInstances ==
    \/ MountHeader
    \/ UnmountHeader
    \/ \E open \in BOOLEAN : setIsOpen(open)
    \/ \E n \in DOMAIN mobileLinks : ClickMobileLink(mobileLinks[n])
    \/ TimerFires
    \/ MountOtherHeader
    \/ UnmountOtherHeader
    \/ \E open \in BOOLEAN : setOtherIsOpen(open)
    \/ \E n \in DOMAIN mobileLinks : ClickOtherMobileLink(mobileLinks[n])
    \/ SetCarouselApi
    \/ ClickPrev
    \/ ClickNext
    \/ \E index \in 0 .. MaxItems : ClickIndicator(index)
    \/ SetOtherCarouselApi
    \/ ClickOtherPrev
    \/ ClickOtherNext
    \/ \E index \in 0 .. MaxItems : ClickOtherIndicator(index)

\* two Headers and two Gallery4 on one page
SpecInstances == InitInstances /\ [][NextInstances]_vars

InitPartners ==
    /\ itemCount = 0
    /\ indicatorCount = <<>>
    /\ GalleryIdle
    /\ HeaderIdle
    /\ InstancesIdle
    /\ PartnersIdle
    /\ HooksIdle
    /\ TestimonialsIdle
    /\ testimonialCount = 1
    /\ autoplay = FALSE

NextPartners ==
    \/ MountPartners
    \/ \E n \in DOMAIN partnerLogos, outcome \in Outcomes : FetchSettles(n, outcome)
    \/ UnmountPartners

\* the Partners section
SpecPartners == InitPartners /\ [][NextPartners]_vars

InitHooks ==
    /\ itemCount = 0
    /\ indicatorCount = <<>>
    /\ GalleryIdle
    /\ HeaderIdle
    /\ InstancesIdle
    /\ PartnersIdle
    /\ carouselOrientation \in {"horizontal", "vertical"}
    /\ carouselApi = FALSE
    /\ carouselCanScrollPrev = FALSE
    /\ carouselCanScrollNext = FALSE
    /\ carouselDepth = 0
    /\ useCarouselResult = <<>>
    /\ ListenersIdle
    /\ inForm = FALSE
    /\ fieldName = <<>>
    /\ itemId = <<>>
    /\ useFormFieldResult = <<>>
    /\ TestimonialsIdle
    /\ testimonialCount = 1
    /\ autoplay = FALSE

NextHooks ==
    \/ \E depth \in 0 .. MaxNesting : RenderCarouselConsumer(depth)
    \/ \E prev \in BOOLEAN, next \in BOOLEAN : CarouselApiReady(prev, next)
    \/ \E prev \in BOOLEAN, next \in BOOLEAN : CarouselOnSelect(prev, next)
    \/ \E cleared \in BOOLEAN : CleanupListenerEffect(cleared)
    \/ \E event \in CarouselEvents, prev \in BOOLEAN, next \in BOOLEAN :
          StaleEvent(event, prev, next)
    \/ \E form \in BOOLEAN, name \in FieldNames, id \in ItemIds :
          RenderFormConsumer(form, name, id)

\* components calling the hooks of ui/carousel.tsx and ui/form.tsx
SpecHooks == InitHooks /\ [][NextHooks]_vars

InitTestimonials ==
    /\ itemCount = 0
    /\ indicatorCount = <<>>
    /\ GalleryIdle
    /\ HeaderIdle
    /\ InstancesIdle
    /\ PartnersIdle
    /\ HooksIdle
    /\ TestimonialsIdle
    /\ testimonialCount \in 1 .. MaxTestimonials
    /\ autoplay \in BOOLEAN

NextTestimonials ==
    \/ MountTestimonials
    \/ ClientRender
    \/ IntervalTick
    \/ ClickTestimonialNext
    \/ ClickTestimonialPrev
    \/ UnmountTestimonials

\* AnimatedTestimonials with every testimonials.length and both autoplay values
SpecTestimonials == InitTestimonials /\ [][NextTestimonials]_vars

\* React runs the pending render and the browser runs a due interval
SpecTestimonialsFair ==
    SpecTestimonials /\ WF_vars(ClientRender) /\ WF_vars(IntervalTick)

\* -------------------------------------------------------------------- claims
HasIndicatorCount == indicatorCount # <<>>
\* 1 <= indicatorCount < itemCount: the segmented branch
Segmented ==
    HasIndicatorCount /\ 1 <= indicatorCount[1] /\ indicatorCount[1] < itemCount
Slides == 0 .. (itemCount - 1)
\* the contract's inputs: indicatorCount absent or not negative
ValidIndicatorCount == ~HasIndicatorCount \/ indicatorCount[1] >= 0

\* C1: for itemCount > 0 and indicatorCount in 1 .. itemCount the mapping has
\* exactly indicatorCount jump targets, non-decreasing, all in
\* 0 .. itemCount-1, the first one 0, and every slide's active indicator is
\* in 0 .. indicatorCount-1.
C1_MappingContract ==
    (itemCount > 0 /\ HasIndicatorCount /\ indicatorCount[1] \in 1 .. itemCount) =>
        /\ DOMAIN indicatorMapping = 0 .. (indicatorCount[1] - 1)
        /\ \A i \in 0 .. (indicatorCount[1] - 2) :
              indicatorMapping[i] <= indicatorMapping[i + 1]
        /\ \A i \in DOMAIN indicatorMapping : indicatorMapping[i] \in Slides
        /\ indicatorMapping[0] = 0
        /\ \A s \in Slides :
              getActiveIndicator(s) \in 0 .. (indicatorCount[1] - 1)
        /\ highlighted \subseteq 0 .. (indicatorCount[1] - 1)

C1_Witness ==
    /\ internalCarouselApi
    /\ Segmented /\ indicatorCount[1] >= 2
    /\ currentSlide = itemCount - 1
    /\ highlighted = {indicatorCount[1] - 1}

\* C2 (as claimed): for 1 <= indicatorCount < itemCount the jump target of
\* indicator i is min(floor(i*itemCount/indicatorCount), itemCount-1) and the
\* active indicator of slide s is min(floor(s*indicatorCount/itemCount),
\* indicatorCount-1), both with exact division.
C2_ExactDivision ==
    Segmented =>
        /\ \A i \in DOMAIN indicatorMapping :
              indicatorMapping[i] =
                Min((i * itemCount) \div indicatorCount[1], itemCount - 1)
        /\ highlighted =
              {Min((currentSlide * indicatorCount[1]) \div itemCount,
                   indicatorCount[1] - 1)}

\* C3: with indicatorCount absent or >= itemCount there is one indicator per
\* slide, indicator i jumps to slide i and the active indicator of slide s
\* is s.
C3_IdentityMapping ==
    (~HasIndicatorCount \/ indicatorCount[1] >= itemCount) =>
        /\ DOMAIN indicatorMapping = Slides
        /\ \A i \in Slides : indicatorMapping[i] = i
        /\ \A s \in Slides : getActiveIndicator(s) = s
        /\ itemCount > 0 => highlighted = {currentSlide}

C3_Witness ==
    /\ internalCarouselApi
    /\ HasIndicatorCount /\ indicatorCount[1] > itemCount
    /\ itemCount >= 3
    /\ currentSlide = itemCount - 2
    /\ highlighted = {itemCount - 2}

\* C4: with indicatorCount = 1 and itemCount >= 1 the mapping is the single
\* jump target 0 and the active indicator of every slide is 0.
C4_SingleIndicator ==
    (itemCount >= 1 /\ HasIndicatorCount /\ indicatorCount[1] = 1) =>
        /\ DOMAIN indicatorMapping = {0}
        /\ indicatorMapping[0] = 0
        /\ \A s \in Slides : getActiveIndicator(s) = 0
        /\ highlighted = {0}

C4_Witness ==
    /\ internalCarouselApi
    /\ HasIndicatorCount /\ indicatorCount[1] = 1
    /\ itemCount >= 3
    /\ currentSlide = itemCount - 1
    /\ highlighted = {0}

\* C5: with itemCount = 0 the mapping is empty and no dot is rendered,
\* whatever indicatorCount is (absent included).
C5_EmptyGallery ==
    itemCount = 0 =>
        /\ DOMAIN indicatorMapping = {}
        /\ highlighted = {}

C5_Witness ==
    /\ internalCarouselApi
    /\ itemCount = 0
    /\ HasIndicatorCount /\ indicatorCount[1] >= 1
    /\ DOMAIN indicatorMapping = {}

\* C6: for an indicatorCount that is absent or not negative every slide has exactly one
\* active indicator, the active indicator never decreases as the slide index
\* grows, and the jump targets never decrease from one indicator to the next.
C6_ContiguousSegments ==
    (itemCount >= 1 /\ ValidIndicatorCount) =>
        /\ Cardinality(highlighted) = 1
        /\ \A s \in Slides : getActiveIndicator(s) \in DOMAIN indicatorMapping
        /\ \A s \in 0 .. (itemCount - 2) :
              getActiveIndicator(s) <= getActiveIndicator(s + 1)
        /\ \A i \in DOMAIN indicatorMapping :
              (i + 1) \in DOMAIN indicatorMapping =>
                  indicatorMapping[i] <= indicatorMapping[i + 1]

C6_Witness ==
    /\ internalCarouselApi
    /\ Segmented /\ indicatorCount[1] >= 3
    /\ highlighted = {1}
    /\ getActiveIndicator(currentSlide - 1) = 0
    /\ getActiveIndicator(currentSlide + 1) = 1

\* C7: with itemCount >= 1, after any sequence of prev, next and indicator
\* clicks from slide 0, 0 <= currentSlide < itemCount.
C7_CurrentSlideInRange ==
    itemCount >= 1 => currentSlide \in Slides

C7_Witness ==
    /\ internalCarouselApi
    /\ itemCount >= 2
    /\ currentSlide = itemCount - 1
    /\ canScrollPrev /\ ~canScrollNext

\* C8: the gallery starts on slide 0; with the carousel api in place prev
\* moves slide s to max(s-1, 0), next moves it to min(s+1, itemCount-1)
\* without wrapping, a click on indicator i moves to indicatorMapping[i];
\* and with itemCount >= 1 (indicatorCount absent or not negative) some
\* control can always be operated: no state is terminal.
C8_Transitions ==
    /\ currentSlide = 0
    /\ [][internalCarouselApi =>
            /\ ClickPrev => currentSlide' = Max(currentSlide - 1, 0)
            /\ ClickNext => currentSlide' = Min(currentSlide + 1, itemCount - 1)
            /\ \A index \in DOMAIN indicatorMapping :
                  ClickIndicator(index) => currentSlide' = indicatorMapping[index]
         ]_vars
    /\ []((itemCount >= 1 /\ ValidIndicatorCount) => ENABLED Next)

C8_Witness ==
    /\ internalCarouselApi
    /\ Segmented /\ indicatorCount[1] >= 2
    /\ currentSlide = indicatorMapping[indicatorCount[1] - 1]
    /\ canScrollPrev /\ canScrollNext

\* C9: when a mounted Header handles a scroll event, isScrolled becomes true
\* exactly when the new offset is above 10: it turns true when the offset
\* crosses above 10 and false when it returns to 10 or below.
C9_ScrollThreshold ==
    [][(mounted /\ mounted' /\ scrollY' # scrollY) =>
          /\ isScrolled' = (scrollY' > 10)
          /\ (scrollY <= 10 /\ scrollY' > 10) => isScrolled'
          /\ (scrollY > 10 /\ scrollY' <= 10) => ~isScrolled'
      ]_vars

C9_Witness ==
    /\ mounted
    /\ isScrolled
    /\ scrollY = 11

\* C10 (as claimed): in every state of a mounted Header, the one right after
\* mount included, isScrolled = (window.scrollY > 10).
C10_AlwaysDerived ==
    mounted => (isScrolled = (scrollY > 10))

\* steps that look a target up and try to scroll to it
ScrollAttempt ==
    \/ TimerFires
    \/ \E sectionId \in desktopSections : scrollToSection(sectionId)
    \/ ClickBookSurvey
PendingIds == {timers[n].id : n \in DOMAIN timers}
FiredIds == {firedTimers[n] : n \in DOMAIN firedTimers}

\* C11: a click on an in-page link of the mobile drawer keeps the route
\* (default navigation suppressed) and closes the drawer in that very step,
\* performs no scroll-into-view in that step, and leaves exactly one new
\* 100 ms timeout whose callback will scroll to the link's section.
C11_CloseThenDeferredScroll ==
    [][\A n \in DOMAIN mobileLinks :
          (mobileLinks[n].isSection /\ ClickMobileLink(mobileLinks[n])) =>
              /\ location' = location
              /\ isOpen /\ ~isOpen'
              /\ lastScroll' = lastScroll
              /\ firedTimers' = firedTimers
              /\ Len(timers') = Len(timers) + 1
              /\ timers'[Len(timers')].delay = ScrollDelay
              /\ "#" \o timers'[Len(timers')].target = mobileLinks[n].href
              /\ timers'[Len(timers')].id \notin FiredIds
      ]_vars

C11_Witness ==
    /\ mounted /\ ~isOpen
    /\ Len(timers) = 1 /\ timers[1].target = "team"
    /\ firedTimers = <<>>
    /\ lastScroll = <<>>
    /\ location = "/"

\* C12: no handler ever throws, and a scroll attempt (a fired timeout of the
\* drawer, a desktop in-page link, a Book-a-Survey button) leaves isOpen and
\* isScrolled as they are both when the target is missing and when it is
\* there, so the NavState reached does not depend on the target existing.
C12_MissingTargetNoOp ==
    /\ [](~uncaught)
    /\ [][ScrollAttempt =>
            /\ navState' = navState
            /\ ~lastScroll'.found =>
                  (~uncaught' /\ <<mounted, scrollY, location>>' =
                                  <<mounted, scrollY, location>>)
         ]_vars

C12_Witness ==
    /\ lastScroll # <<>>
    /\ ~lastScroll.found /\ lastScroll.id = "services"
    /\ Len(firedTimers) = 1 /\ timers = <<>>
    /\ mounted /\ ~isOpen
    /\ ~uncaught

\* C13: a timeout set by the mobile drawer is never cancelled: every id
\* handed out so far is either still pending or has run exactly once, also
\* after an unmount or a change of the drawer state, and every pending
\* timeout eventually runs.
C13_NeverCancelled ==
    /\ [](\A id \in 1 .. (nextTimerId - 1) :
            Cardinality({n \in DOMAIN timers : timers[n].id = id})
              + Cardinality({n \in DOMAIN firedTimers : firedTimers[n] = id}) = 1)
    /\ \A id \in 1 .. MaxTimers : (id \in PendingIds) ~> (id \in FiredIds)

C13_Witness ==
    /\ ~mounted
    /\ timers # <<>>
    /\ firedTimers # <<>>

\* C14: only the links flagged isSection (the "#..." hrefs) take the
\* close-then-scroll path; a click on HSEC or Contact Us navigates to the
\* link's route and sets no timeout and scrolls nothing.
C14_NonAnchorLinks ==
    /\ \A n \in DOMAIN mobileLinks :
          mobileLinks[n].isSection <=> mobileLinks[n].href \notin {"/hsec", "/contact"}
    /\ [][\A n \in DOMAIN mobileLinks :
            ClickMobileLink(mobileLinks[n]) =>
                IF mobileLinks[n].isSection
                THEN location' = location /\ Len(timers') = Len(timers) + 1
                ELSE /\ location' = mobileLinks[n].href
                     /\ timers' = timers
                     /\ nextTimerId' = nextTimerId
                     /\ lastScroll' = lastScroll
         ]_vars

C14_Witness ==
    /\ mounted /\ isOpen
    /\ location = "/hsec"
    /\ timers = <<>> /\ nextTimerId = 1
    /\ lastScroll = <<>>

\* C15: a mounted Header has exactly one scroll listener on window, an
\* unmounted one has none, and no step taken while the Header is unmounted
\* changes its isScrolled.
C15_ListenerLifecycle ==
    /\ [](scrollListeners = IF mounted THEN 1 ELSE 0)
    /\ [][(~mounted /\ ~mounted') => isScrolled' = isScrolled]_vars

C15_Witness ==
    /\ ~mounted
    /\ nextTimerId > 1
    /\ scrollListeners = 0
    /\ scrollY > ScrollThreshold
    /\ ~isScrolled

\* C16: instances are independent. No step of one Header (mount, unmount,
\* drawer open/close, mobile link click) and no timeout changes the isOpen of
\* the other Header, and no step of one Gallery4 (api hand-over, previous,
\* next, dot jump) changes currentSlide, canScrollPrev or canScrollNext of
\* the other Gallery4.
HeaderStep ==
    \/ MountHeader
    \/ UnmountHeader
    \/ \E open \in BOOLEAN : setIsOpen(open)
    \/ \E n \in DOMAIN mobileLinks : ClickMobileLink(mobileLinks[n])
OtherHeaderStep ==
    \/ MountOtherHeader
    \/ UnmountOtherHeader
    \/ \E open \in BOOLEAN : setOtherIsOpen(open)
    \/ \E n \in DOMAIN mobileLinks : ClickOtherMobileLink(mobileLinks[n])
GalleryStep ==
    \/ SetCarouselApi
    \/ ClickPrev
    \/ ClickNext
    \/ \E index \in 0 .. MaxItems : ClickIndicator(index)
OtherGalleryStep ==
    \/ SetOtherCarouselApi
    \/ ClickOtherPrev
    \/ ClickOtherNext
    \/ \E index \in 0 .. MaxItems : ClickOtherIndicator(index)
GallerySelection == <<currentSlide, canScrollPrev, canScrollNext>>
OtherGallerySelection ==
    <<otherGallery.currentSlide, otherGallery.canScrollPrev,
      otherGallery.canScrollNext>>

C16_IndependentInstances ==
    [][/\ HeaderStep => otherHeader.isOpen' = otherHeader.isOpen
       /\ OtherHeaderStep => isOpen' = isOpen
       /\ TimerFires => (isOpen' = isOpen /\ otherHeader.isOpen' = otherHeader.isOpen)
       /\ GalleryStep => OtherGallerySelection' = OtherGallerySelection
       /\ OtherGalleryStep => GallerySelection' = GallerySelection
      ]_vars

C16_Witness ==
    /\ mounted /\ otherHeader.mounted
    /\ isOpen /\ ~otherHeader.isOpen
    /\ Len(timers) = 1
    /\ internalCarouselApi /\ otherGallery.internalCarouselApi
    /\ currentSlide = itemCount - 1 /\ ~canScrollNext
    /\ otherGallery.currentSlide = 0 /\ otherGallery.canScrollNext

\* C17: every mount of Partners sends exactly one HEAD request per logo and
\* none later (no retry); the rendered list always has the ids of
\* partnerLogos in their order; and once the checks have settled, logo n
\* shows its original image if its check answered OK and its fallback image
\* after a non-OK answer or a thrown error.
C17_FallbackOncePerMount ==
    /\ \A n \in DOMAIN partnerLogos : fetchCount[n] = mounts
    /\ partnersMounted =>
          /\ DOMAIN logos = DOMAIN partnerLogos
          /\ \A n \in DOMAIN logos : logos[n].id = partnerLogos[n].id
          /\ AllSettled(responses) =>
                \A n \in DOMAIN logos :
                    logos[n].image = IF responses[n] = "ok"
                                     THEN partnerLogos[n].image
                                     ELSE partnerLogos[n].fallbackImage

C17_Witness ==
    /\ partnersMounted
    /\ responses[1] = "ok" /\ responses[2] = "notok" /\ responses[3] = "error"
    /\ logos[1].image = <<"local", 1>>
    /\ logos[2].image = <<"fallback", 2>>
    /\ logos[3].image = <<"fallback", 3>>
    /\ fetchCount[1] = 1

\* C18: a call of useCarousel with no Carousel above the caller throws
\* Error("useCarousel must be used within a <Carousel />"); a call below a
\* Carousel throws nothing and returns the value of that Carousel's provider.
C18_UseCarouselGuard ==
    useCarouselResult # <<>> =>
        IF carouselDepth = 0
        THEN /\ useCarouselResult.threw
             /\ useCarouselResult.message = "useCarousel must be used within a <Carousel />"
        ELSE /\ ~useCarouselResult.threw
             /\ useCarouselResult.value =
                   CarouselProviderValue(carouselApi, carouselCanScrollPrev,
                                         carouselCanScrollNext)

C18_Witness ==
    /\ useCarouselResult # <<>>
    /\ carouselDepth = 0
    /\ useCarouselResult.threw
    /\ carouselApi /\ carouselCanScrollNext

\* C19 (as claimed): a call of useFormField with no FormField above the
\* caller throws Error("useFormField should be used within <FormField>").
C19_UseFormFieldGuard ==
    (useFormFieldResult # <<>> /\ fieldName = <<>>) =>
        /\ useFormFieldResult.threw
        /\ useFormFieldResult.message = "useFormField should be used within <FormField>"

\* autoplay is on, the client render has happened and index i exists
Autoplaying(i) ==
    testimonialsMounted /\ isClient /\ autoplay /\ i < testimonialCount
\* an interval exists only for a mounted, client-rendered component with
\* autoplay true, and each of its ticks advances active by one with wrap
TicksOnlyWithAutoplay ==
    /\ [](interval # <<>> <=> (testimonialsMounted /\ isClient /\ autoplay))
    /\ [][IntervalTick =>
            /\ autoplay
            /\ active' = IF active = testimonialCount - 1 THEN 0 ELSE active + 1
         ]_vars

\* C20 (as claimed): ticks happen only with autoplay true, each advances
\* active by one with wrap, and with fair ticks every index of an
\* autoplaying component is active infinitely often.
C20_AutoplayCycles ==
    /\ TicksOnlyWithAutoplay
    /\ \A i \in 0 .. (MaxTestimonials - 1) :
          []<>(~Autoplaying(i) \/ active = i)

\* C20 (amended): ticks happen only with autoplay true, each advances active
\* by one with wrap, and with fair ticks every index of an autoplaying
\* component is active infinitely often unless the Previous button is
\* pressed again and again without end.
C20_AutoplayCyclesUnlessPrev ==
    /\ TicksOnlyWithAutoplay
    /\ \A i \in 0 .. (MaxTestimonials - 1) :
          \/ []<><<ClickTestimonialPrev>>_vars
          \/ []<>(~Autoplaying(i) \/ active = i)

C20_Witness ==
    /\ autoplay /\ isClient /\ testimonialsMounted
    /\ interval = <<AutoplayPeriod>>
    /\ testimonialCount >= 3
    /\ active = testimonialCount - 1

\* C21 (as claimed): for 1 <= indicatorCount < itemCount the active indicator
\* of the jump target of indicator i is i, and a click on dot i that moves
\* the carousel leaves dot i, and only dot i, highlighted.
C21_ClickedIndicatorHighlighted ==
    /\ [](Segmented =>
            \A i \in DOMAIN indicatorMapping :
                getActiveIndicator(indicatorMapping[i]) = i)
    /\ [][\A index \in 0 .. MaxIndicators :
            (Segmented /\ internalCarouselApi /\ ClickIndicator(index)) =>
                highlighted' = {index}
         ]_vars

\* C24: for 1 <= indicatorCount < itemCount every indicator is the active
\* indicator of at least one slide.
C24_EveryIndicatorActive ==
    Segmented =>
        \A i \in 0 .. (indicatorCount[1] - 1) :
            \E s \in Slides : getActiveIndicator(s) = i

C24_Witness ==
    /\ internalCarouselApi
    /\ Segmented
    /\ itemCount >= 4 /\ indicatorCount[1] = itemCount - 1
    /\ highlighted = {indicatorCount[1] - 2}

\* C25: for 1 <= indicatorCount < itemCount the jump targets strictly
\* increase from one indicator to the next, so no two indicators share a
\* jump target.
C25_StrictlyIncreasingTargets ==
    Segmented =>
        /\ \A i \in 0 .. (indicatorCount[1] - 2) :
              indicatorMapping[i] < indicatorMapping[i + 1]
        /\ \A i, j \in DOMAIN indicatorMapping :
              indicatorMapping[i] = indicatorMapping[j] => i = j

C25_Witness ==
    /\ internalCarouselApi
    /\ Segmented
    /\ itemCount >= 4 /\ indicatorCount[1] = itemCount - 1
    /\ selectedSnap = indicatorMapping[indicatorCount[1] - 1]
    /\ currentSlide = selectedSnap
    /\ currentSlide > indicatorMapping[indicatorCount[1] - 2]

\* C22 (as claimed): whenever the timeout set by an in-page link of the
\* mobile drawer runs, the drawer is closed, whatever the user did between
\* the click and the timeout.
C22_DrawerClosedAtScroll ==
    [][(TimerFires /\ Head(timers).target \in desktopSections) =>
           (~isOpen /\ ~isOpen')
      ]_vars

\* C27: a scroll event leaves isOpen as it is; opening or closing the
\* drawer, a click on any link or Book-a-Survey button and a fired timeout
\* leave isScrolled as it is; a click on a desktop in-page link leaves both.
C27_IndependentFields ==
    [][/\ (\E y \in 0 .. MaxScrollY : WindowScroll(y)) =>
             (isOpen' = isOpen /\ UNCHANGED <<mounted, location, timers, lastScroll>>)
       /\ (\/ \E open \in BOOLEAN : setIsOpen(open)
           \/ \E n \in DOMAIN mobileLinks : ClickMobileLink(mobileLinks[n])
           \/ ClickMobileBookSurvey
           \/ \E href \in desktopRoutes : ClickDesktopRoute(href)
           \/ ClickBookSurvey
           \/ TimerFires) => isScrolled' = isScrolled
       /\ (\E sectionId \in desktopSections : scrollToSection(sectionId)) =>
             navState' = navState
      ]_vars

C27_Witness ==
    /\ mounted
    /\ isOpen /\ isScrolled
    /\ scrollY > ScrollThreshold
    /\ firedTimers # <<>>
    /\ lastScroll # <<>> /\ lastScroll.id = "case-studies"
    /\ location = "/hsec"

\* C23 (as claimed): once the listener effect of the Carousel is cleaned up,
\* every api.on(event, onSelect) it made has been matched by an
\* api.off(event, onSelect), no event of the old api still has onSelect
\* subscribed, and no old api has called onSelect.
C23_ListenersReleased ==
    apiListeners = {} =>
        /\ \A event \in CarouselEvents : offCalls[event] = onCalls[event]
        /\ staleListeners = {}
        /\ ~staleOnSelect

\* C26: with n >= 1 testimonials the active index stays in 0 .. n - 1 through
\* every sequence of next, prev and tick; next and tick map active to
\* (active + 1) mod n, prev maps it to (active - 1 + n) mod n, and prev after
\* next as well as next after prev give back the index they started from.
C26_ActiveIndexWraps ==
    /\ [](active \in 0 .. (testimonialCount - 1))
    /\ [](\A a \in 0 .. (testimonialCount - 1) :
            /\ handlePrev(handleNext(a)) = a
            /\ handleNext(handlePrev(a)) = a)
    /\ [][
          /\ (ClickTestimonialNext \/ IntervalTick) =>
                (active' = (active + 1) % testimonialCount)
          /\ ClickTestimonialPrev =>
                (/\ active' = (active - 1 + testimonialCount) % testimonialCount
                 /\ handleNext(active') = active)
          /\ ClickTestimonialNext => (handlePrev(active') = active)
       ]_vars

C26_Witness ==
    /\ testimonialsMounted /\ isClient
    /\ ~autoplay /\ interval = <<>>
    /\ testimonialCount >= 3
    /\ active = testimonialCount - 1

====
